---- MODULE Spec2Model ----
(***************************************************************************)
(* Bitcask-style storage engine of GoMQ (src/index.go): the memory-mapped  *)
(* active file, its rotation into closed segments, the in-memory index,    *)
(* compaction and index recovery, at byte granularity; and the lock file   *)
(* of the data directory (package barrel, createFlockFile).                *)
(***************************************************************************)
EXTENDS Integers, Sequences, FiniteSets, TLC

(* ------------------------------ bounds --------------------------------- *)
\* maxSize handed to initActiveFile: room for two minimal records.
MaxFileSize == 44
\* how many Puts / rotations-worth of segments a run may start
MaxPuts == 3
MaxSegments == 2
\* calls other than Put and Get (Delete, Compact, restart, disk corruption)
MaxOthers == 2
\* Puts of a run with two callers
ConcPuts == 2
ConcOthers == 1
\* processes that open the data directory, and lock files they may create
MaxProcs == 2
MaxInodes == 3

(* ------------------------ integers and bytes --------------------------- *)
\* A uint32 is kept as its four little-endian bytes; TLC's integers are the
\* int32 range, which is exactly the range of Go's int32 conversions below.
Two8  == 256
Two16 == 65536
Two24 == 16777216
MaxInt32 == 2147483647

Min(a, b) == IF a < b THEN a ELSE b

RECURSIVE Xor(_, _)
Xor(a, b) ==
    IF a = 0 THEN b
    ELSE IF b = 0 THEN a
    ELSE (((a % 2) + (b % 2)) % 2) + 2 * Xor(a \div 2, b \div 2)

\* binary.LittleEndian encoding of a uint32 below 2^31
LE32(n) == << n % Two8, (n \div Two8) % Two8, (n \div Two16) % Two8, (n \div Two24) % Two8 >>

\* the byte of data at 0-based offset i; 0 past the end
ByteAt(data, i) == IF i + 1 <= Len(data) THEN data[i + 1] ELSE 0

\* int32(binary.LittleEndian.Uint32(data[i:i+4]))
I32At(data, i) ==
    ByteAt(data, i) + Two8 * ByteAt(data, i + 1) + Two16 * ByteAt(data, i + 2)
      + Two24 * (IF ByteAt(data, i + 3) >= 128 THEN ByteAt(data, i + 3) - 256
                 ELSE ByteAt(data, i + 3))

\* int32 addition with wrap-around
Add32(a, b) ==
    IF a > 0 /\ b > 0 /\ a > MaxInt32 - b
        THEN (a - MaxInt32 - 1) + (b - MaxInt32 - 1)
    ELSE IF a < 0 /\ b < 0 /\ a < (-MaxInt32 - 1) - b
        THEN (a + MaxInt32 + 1) + (b + MaxInt32 + 1)
    ELSE a + b

\* data[lo:] of a Go slice, lo a 0-based offset with lo <= len(data)
SliceFrom(data, lo) == SubSeq(data, lo + 1, Len(data))

Zeros(n) == [i \in 1..n |-> 0]

(* ------------------------------ crc32 ---------------------------------- *)
\* The 32-bit register is its four bytes, least significant first.
XorByte == [a \in 0..255 |-> [b \in 0..255 |-> Xor(a, b)]]

CrcPoly == << 32, 131, 184, 237 >>   \* 0xEDB88320, the reflected IEEE polynomial

CrcShift(c) ==
    LET s == << (c[1] \div 2) + (c[2] % 2) * 128, (c[2] \div 2) + (c[3] % 2) * 128,
                (c[3] \div 2) + (c[4] % 2) * 128, c[4] \div 2 >>
    IN  IF c[1] % 2 = 1 THEN [i \in 1..4 |-> XorByte[s[i]][CrcPoly[i]]] ELSE s

\* the byte-at-a-time table of hash/crc32
CrcTable ==
    [n \in 0..255 |->
        CrcShift(CrcShift(CrcShift(CrcShift(CrcShift(CrcShift(CrcShift(CrcShift(
            << n, 0, 0, 0 >>))))))))]

CrcUpdate(c, byte) ==
    LET e == CrcTable[XorByte[c[1]][byte]]
    IN  << XorByte[c[2]][e[1]], XorByte[c[3]][e[2]], XorByte[c[4]][e[3]], e[4] >>

\* the register after the first n bytes of data
RECURSIVE CrcBytes(_, _)
CrcBytes(data, n) ==
    IF n = 0 THEN << 255, 255, 255, 255 >>
    ELSE CrcUpdate(CrcBytes(data, n - 1), data[n])

\* crc32.ChecksumIEEE(value), as the four little-endian bytes of the uint32
ChecksumIEEE(value) == [i \in 1..4 |-> 255 - CrcBytes(value, Len(value))[i]]

(* ---------------------------- record codec ----------------------------- *)
HeaderSize == 20

\* Header.encode: binary.Write of the five uint32 fields, little-endian
HeaderEncode(h) ==
    h.Checksum \o LE32(h.Timestamp) \o LE32(h.Expiry) \o LE32(h.KeySize) \o LE32(h.ValSize)

\* Record.encode: header, key bytes, value bytes, contiguous
RecordEncode(key, value, ts) ==
    HeaderEncode([Checksum |-> ChecksumIEEE(value), Timestamp |-> ts, Expiry |-> 0,
                  KeySize |-> Len(key), ValSize |-> Len(value)]) \o key \o value

\* decodeRecord: parse the fixed header, take KeySize and ValSize bytes after
\* it, verify the checksum of the value.  A size of 2^31 or more is longer
\* than any buffer.
DecodeRecord(data) ==
    IF Len(data) < HeaderSize THEN [status |-> "corrupt", value |-> << >>]
    ELSE IF ByteAt(data, 15) >= 128 \/ ByteAt(data, 19) >= 128
        THEN [status |-> "corrupt", value |-> << >>]
    ELSE LET ks == I32At(data, 12)
             vs == I32At(data, 16)
         IN  IF ks > Len(data) - HeaderSize \/ vs > Len(data) - HeaderSize - ks
                 THEN [status |-> "corrupt", value |-> << >>]
             ELSE LET value == SubSeq(data, HeaderSize + ks + 1, HeaderSize + ks + vs)
                  IN  IF ChecksumIEEE(value) # SubSeq(data, 1, 4)
                          THEN [status |-> "corrupt", value |-> << >>]
                      ELSE [status |-> "ok", value |-> value]

(* ---------------------------- entry codec ------------------------------ *)
\* encodeEntry: the layout decodeEntry reads, keySize | valueSize | key | value
EncodeEntry(key, value) == LE32(Len(key)) \o LE32(Len(value)) \o key \o value

\* decodeEntry(data): two int32 sizes from data[0:8], the value sliced at
\* data[8+keySize : 8+keySize+valueSize]; Go panics when a slice bound is
\* negative, inverted or beyond the capacity.  Key and size are what
\* recoverIndex takes from the same call.
DecodeEntry(data) ==
    IF Len(data) < 8 THEN [panic |-> TRUE, value |-> << >>, key |-> << >>, size |-> 0]
    ELSE LET keySize   == I32At(data, 0)
             valueSize == I32At(data, 4)
             lo        == Add32(8, keySize)
             hi        == Add32(lo, valueSize)
         IN  IF lo < 0 \/ hi < lo \/ hi > Len(data)
                 THEN [panic |-> TRUE, value |-> << >>, key |-> << >>, size |-> 0]
             ELSE [panic |-> FALSE, value |-> SubSeq(data, lo + 1, hi),
                   key |-> SubSeq(data, 9, lo), size |-> hi]

(* ------------------------------ inputs --------------------------------- *)
None == 0

KeyA == << 97 >>
KeyB == << 98 >>
Keys == {KeyA, KeyB}

\* a value one byte too long for an empty segment, with its header and key
BigValue == [i \in 1..(MaxFileSize - HeaderSize) |-> 9]
Values == {<< >>, << 1 >>, BigValue}

\* time.Now().Unix()
Clock == {1730000000}

\* the step of rotateActiveFile that returns an error, or none
RotateFailures == {"none", "munmap", "close", "rename", "open", "init"}

\* what a read of the unmapped region yields when it does not fault
UnmappedViews == {Zeros(MaxFileSize), [i \in 1..MaxFileSize |-> 255]}

(* ------------------------------- state ---------------------------------- *)
VARIABLES
    mu,            \* sync.RWMutex: [writer, readers]
    pc,            \* where each thread is inside Put / Get / Compact
    arg,           \* the arguments of the call each thread is in
    mmapData,      \* bytes of active.log, seen through db.mmapData
    mapped,        \* db.mmapData is a live mapping
    dataFiles,     \* db.dataFiles: handles [name, data, pos, closed]
    index,         \* db.index: key -> [FileID, Offset]
    activeOffset,  \* db.activeOffset
    phase,         \* "serving", "hung" (recovery never returns) or "crashed"
    last,          \* the call that completed last, with its result
    hist,          \* per key: the values of its last two successful Puts
    clean,         \* only successful Puts and Gets have run so far
    whole,         \* every record written so far fitted into a segment
    rotations,     \* successful rotations so far
    corrupted,     \* keys whose stored value was changed on disk since their Put
    budget,        \* calls a run may still start
    flockPath,     \* the inode the lock file's name refers to, None when absent
    flockInodes,   \* inodes created for the lock file so far
    flockFd,       \* per process: the inode its *os.File is open on, or None
    flockHeld,     \* per inode: the process whose descriptor holds LOCK_EX, or None
    flockPc        \* per process: where it is in createFlockFile / destroyFlockFile

engine == << mu, mmapData, mapped, dataFiles, index, activeOffset, phase >>
ghost  == << last, hist, clean, whole, rotations, corrupted, budget >>
dirlock == << flockPath, flockInodes, flockFd, flockHeld, flockPc >>
vars   == << mu, pc, arg, mmapData, mapped, dataFiles, index, activeOffset, phase,
             last, hist, clean, whole, rotations, corrupted, budget,
             flockPath, flockInodes, flockFd, flockHeld, flockPc >>

NoArg == [key |-> << >>, value |-> << >>, ts |-> 0, rotated |-> FALSE]
Result(op, key, value, status, rotated) ==
    [op |-> op, key |-> key, value |-> value, status |-> status, rotated |-> rotated]

\* the threads that call into the engine
Threads == DOMAIN pc

\* the processes that try to open the data directory
Procs == 1..MaxProcs

\* initActiveFile("active.log", MaxFileSize) on an empty directory, empty index
InitWith(threads, calls) ==
    /\ mu = [writer |-> None, readers |-> {}]
    /\ pc = [t \in threads |-> "idle"]
    /\ arg = [t \in threads |-> NoArg]
    /\ mmapData = Zeros(MaxFileSize)
    /\ mapped = TRUE
    /\ dataFiles = << >>
    /\ index = << >>
    /\ activeOffset = 0
    /\ phase = "serving"
    /\ last = Result("init", << >>, << >>, "ok", FALSE)
    /\ hist = [k \in Keys |-> [state |-> "never", vals |-> << >>]]
    /\ clean = TRUE
    /\ whole = TRUE
    /\ rotations = 0
    /\ corrupted = {}
    /\ budget = calls
    /\ flockPath = None
    /\ flockInodes = 0
    /\ flockFd = [p \in Procs |-> None]
    /\ flockHeld = [i \in 1..MaxInodes |-> None]
    /\ flockPc = [p \in Procs |-> "out"]

\* one caller
Init == InitWith({1}, [puts |-> MaxPuts, others |-> MaxOthers])

\* two concurrent callers
InitConc == InitWith({1, 2}, [puts |-> ConcPuts, others |-> ConcOthers])

(* ------------------------------- mutex ---------------------------------- *)
\* mu.Lock() can return
CanLock == mu.writer = None /\ mu.readers = {}
\* an RLock that does not wait for the writer
CanRLockAnyTime == TRUE

\* mu.RLock() can return
CanRLock == mu.writer = None

Lock(t)    == [mu EXCEPT !.writer = t]
Unlock(t)  == [mu EXCEPT !.writer = None]
RLock(t)   == [mu EXCEPT !.readers = @ \cup {t}]
RUnlock(t) == [mu EXCEPT !.readers = @ \ {t}]

(* -------------------------------- index --------------------------------- *)
FileOffset(fileID, offset) == [FileID |-> fileID, Offset |-> offset]

\* m[key] = loc on a Go map
MapSet(m, key, loc) ==
    [k \in (DOMAIN m) \cup {key} |-> IF k = key THEN loc ELSE m[k]]

\* a lookup that does not test ok
IndexGetIgnoringOk(m, key) ==
    [ok |-> TRUE, offset |-> IF key \in DOMAIN m THEN m[key] ELSE FileOffset(0, 0)]

\* offset, ok := m[key]: a missing key yields the zero FileOffset and ok = false
IndexGet(m, key) ==
    IF key \in DOMAIN m THEN [ok |-> TRUE, offset |-> m[key]]
    ELSE [ok |-> FALSE, offset |-> FileOffset(0, 0)]

(* --------------------------------- Put ---------------------------------- *)
\* Put, lines 85-112: take the lock, encode, decide whether to rotate
PutBegin(t, key, value, ts) ==
    LET encodedRecord == RecordEncode(key, value, ts)
        rotate == activeOffset + Len(encodedRecord) > MaxFileSize
    IN  /\ phase = "serving"
        /\ pc[t] = "idle"
        /\ CanLock
        /\ budget.puts > 0
        /\ rotate => Len(dataFiles) < MaxSegments
        /\ mu' = Lock(t)
        /\ pc' = [pc EXCEPT ![t] = IF rotate THEN "rotate" ELSE "write"]
        /\ arg' = [arg EXCEPT ![t] = [key |-> key, value |-> value, ts |-> ts,
                                      rotated |-> FALSE]]
        /\ budget' = [budget EXCEPT !.puts = @ - 1]
        /\ UNCHANGED << mmapData, mapped, dataFiles, index, activeOffset, phase,
                        last, hist, clean, whole, rotations, corrupted >>
    /\ UNCHANGED dirlock

\* rotateActiveFile called from Put; on an error Put returns it and unlocks
Rotate(t) ==
    /\ pc[t] = "rotate"
    /\ \E f \in RotateFailures :
        \* syscall.Munmap of a slice that is no longer mapped returns EINVAL
        /\ ~mapped => f = "munmap"
        /\ mapped' = (IF f = "munmap" THEN mapped ELSE f = "none")
        /\ dataFiles' = IF f \in {"init", "none"}
                            THEN Append(dataFiles, [name |-> Len(dataFiles), data |-> mmapData,
                                                    pos |-> 0, closed |-> FALSE])
                        ELSE dataFiles
        /\ mmapData' = IF f \in {"open", "init", "none"} THEN Zeros(MaxFileSize) ELSE mmapData
        /\ activeOffset' = IF f = "none" THEN 0 ELSE activeOffset
        /\ IF f = "none"
             THEN /\ pc' = [pc EXCEPT ![t] = "write"]
                  /\ arg' = [arg EXCEPT ![t].rotated = TRUE]
                  /\ rotations' = rotations + 1
                  /\ UNCHANGED << mu, last, clean >>
             ELSE /\ pc' = [pc EXCEPT ![t] = "idle"]
                  /\ arg' = [arg EXCEPT ![t] = NoArg]
                  /\ mu' = Unlock(t)
                  /\ last' = Result("put", arg[t].key, arg[t].value, "error", FALSE)
                  /\ clean' = FALSE
                  /\ UNCHANGED rotations
    /\ UNCHANGED << index, phase, hist, whole, corrupted, budget >>
    /\ UNCHANGED dirlock

\* copy(dst, src) into the mapped region: min(len(dst), len(src)) bytes
CopyInto(data, offset, src) ==
    LET n == Min(Len(data) - offset, Len(src))
    IN  [i \in 1..Len(data) |-> IF i > offset /\ i <= offset + n THEN src[i - offset]
                                ELSE data[i]]

HistPut(h, key, value) ==
    [h EXCEPT ![key] = [state |-> "live",
                        vals |-> IF Len(@.vals) = 0 THEN << value >>
                                 ELSE << @.vals[Len(@.vals)], value >>]]

\* Put, lines 114-119: write to the mapping, set the index, advance, unlock.
\* A store into an unmapped region faults, or lands in memory that is not
\* the file.
PutWrite(t) ==
    LET encodedRecord == RecordEncode(arg[t].key, arg[t].value, arg[t].ts)
    IN  /\ pc[t] = "write"
        /\ pc' = [pc EXCEPT ![t] = "idle"]
        /\ arg' = [arg EXCEPT ![t] = NoArg]
        /\ \E fault \in (IF mapped THEN {FALSE} ELSE BOOLEAN) :
             IF fault
               THEN /\ phase' = "crashed"
                    /\ last' = Result("put", arg[t].key, arg[t].value, "fault", arg[t].rotated)
                    /\ clean' = FALSE
                    /\ UNCHANGED << mu, mmapData, index, activeOffset, hist, whole, corrupted >>
               ELSE /\ mmapData' = IF mapped THEN CopyInto(mmapData, activeOffset, encodedRecord)
                                   ELSE mmapData
                    /\ index' = MapSet(index, arg[t].key, FileOffset(-1, activeOffset))
                    /\ activeOffset' = activeOffset + Len(encodedRecord)
                    /\ mu' = Unlock(t)
                    /\ last' = Result("put", arg[t].key, arg[t].value, "ok", arg[t].rotated)
                    /\ hist' = HistPut(hist, arg[t].key, arg[t].value)
                    /\ corrupted' = corrupted \ {arg[t].key}
                    /\ whole' = (whole /\ Len(encodedRecord) <= MaxFileSize)
                    /\ UNCHANGED << phase, clean >>
        /\ UNCHANGED << mapped, dataFiles, rotations, budget >>
    /\ UNCHANGED dirlock

(* --------------------------------- Get ---------------------------------- *)
\* make([]byte, recordSize): a buffer that holds any record of a segment
recordSize == MaxFileSize

\* file.Seek(offset, io.SeekStart); fails, ignored, on a closed handle
SeekStart(h, offset) == IF h.closed THEN h ELSE [h EXCEPT !.pos = offset]

\* how many bytes file.Read(buf) delivers for len(buf) = n
ReadCount(h, n) ==
    IF h.closed \/ h.pos >= Len(h.data) THEN 0 ELSE Min(n, Len(h.data) - h.pos)

\* recordData after file.Read(recordData): the bytes read, the rest still zero
ReadRecordData(h) ==
    LET n == ReadCount(h, recordSize)
    IN  [i \in 1..recordSize |-> IF i <= n THEN h.data[h.pos + i] ELSE 0]

\* Get, lines 131-148, on a location of the active file
GetActive(view, offset) ==
    IF offset > Len(view) THEN [status |-> "panic", value |-> << >>]
    ELSE DecodeRecord(SliceFrom(view, offset))

\* what Get(key) returns in the current state, run without interruption
GetValue(key) ==
    LET found == IndexGet(index, key)
        offset == found.offset
    IN  IF ~found.ok THEN [status |-> "notfound", value |-> << >>]
        ELSE IF offset.FileID = -1
            THEN IF mapped THEN GetActive(mmapData, offset.Offset)
                 ELSE [status |-> "fault", value |-> << >>]
        ELSE IF offset.FileID < 0 \/ offset.FileID + 1 > Len(dataFiles)
            THEN [status |-> "panic", value |-> << >>]
        ELSE DecodeRecord(ReadRecordData(SeekStart(dataFiles[offset.FileID + 1],
                                                   offset.Offset)))

\* Get, line 123: take the read lock
GetBegin(t, key) ==
    /\ phase = "serving"
    /\ pc[t] = "idle"
    /\ CanRLock
    /\ mu' = RLock(t)
    /\ pc' = [pc EXCEPT ![t] = "get"]
    /\ arg' = [arg EXCEPT ![t] = [NoArg EXCEPT !.key = key]]
    /\ UNCHANGED << mmapData, mapped, dataFiles, index, activeOffset, phase, ghost >>
    /\ UNCHANGED dirlock

\* Get returns: the deferred RUnlock runs, the result is handed back
GetReturn(t, res) ==
    /\ mu' = RUnlock(t)
    /\ pc' = [pc EXCEPT ![t] = "idle"]
    /\ arg' = [arg EXCEPT ![t] = NoArg]
    /\ last' = Result("get", arg[t].key, res.value, res.status, FALSE)

\* Get, lines 126-138: the lookup, then the read of the mapping or the seek
GetLookup(t) ==
    LET key    == arg[t].key
        found  == IndexGet(index, key)
        offset == found.offset
    IN
    /\ pc[t] = "get"
    /\ IF ~found.ok
         THEN /\ GetReturn(t, [status |-> "notfound", value |-> << >>])
              /\ UNCHANGED << dataFiles, phase >>
       ELSE IF offset.FileID = -1
         THEN IF mapped
                THEN /\ GetReturn(t, GetActive(mmapData, offset.Offset))
                     /\ UNCHANGED << dataFiles, phase >>
              ELSE \/ /\ phase' = "crashed"
                      /\ last' = Result("get", key, << >>, "fault", FALSE)
                      /\ UNCHANGED << mu, pc, arg, dataFiles >>
                   \/ \E view \in UnmappedViews :
                      /\ GetReturn(t, GetActive(view, offset.Offset))
                      /\ UNCHANGED << dataFiles, phase >>
       ELSE IF offset.FileID < 0 \/ offset.FileID + 1 > Len(dataFiles)
         THEN /\ GetReturn(t, [status |-> "panic", value |-> << >>])
              /\ UNCHANGED << dataFiles, phase >>
       ELSE /\ dataFiles' = [dataFiles EXCEPT ![offset.FileID + 1] = SeekStart(@, offset.Offset)]
            /\ pc' = [pc EXCEPT ![t] = "getread"]
            /\ UNCHANGED << mu, arg, last, phase >>
    /\ UNCHANGED << mmapData, mapped, index, activeOffset, hist, clean, whole, rotations,
                    corrupted, budget >>
    /\ UNCHANGED dirlock

\* Get, lines 139-148: read recordSize bytes from the handle and decode
GetRead(t) ==
    LET id == IndexGet(index, arg[t].key).offset.FileID + 1
        h  == dataFiles[id]
    IN  /\ pc[t] = "getread"
        /\ dataFiles' = [dataFiles EXCEPT ![id].pos = @ + ReadCount(h, recordSize)]
        /\ GetReturn(t, DecodeRecord(ReadRecordData(h)))
        /\ UNCHANGED << mmapData, mapped, index, activeOffset, phase,
                        hist, clean, whole, rotations, corrupted, budget >>
    /\ UNCHANGED dirlock

(* -------------------------------- Delete -------------------------------- *)
\* Delete removes the index entry directly, under the exclusive lock
Delete(t, key) ==
    /\ phase = "serving"
    /\ pc[t] = "idle"
    /\ CanLock
    /\ budget.others > 0
    /\ index' = [k \in (DOMAIN index) \ {key} |-> index[k]]
    /\ hist' = [hist EXCEPT ![key] = [state |-> IF @.state = "never" THEN "never" ELSE "deleted",
                                      vals |-> << >>]]
    /\ last' = Result("delete", key, << >>, "ok", FALSE)
    /\ clean' = FALSE
    /\ corrupted' = corrupted \ {key}
    /\ budget' = [budget EXCEPT !.others = @ - 1]
    /\ UNCHANGED << mu, pc, arg, mmapData, mapped, dataFiles, activeOffset, phase,
                    whole, rotations >>
    /\ UNCHANGED dirlock

(* ------------------------------- Compact -------------------------------- *)
\* file.Seek(d, io.SeekCurrent); a negative target fails and leaves the
\* position; positions saturate at 2^31-1, which is past every file here
SeekCurrent(h, d) ==
    IF h.closed THEN h
    ELSE IF d > MaxInt32 - h.pos THEN [h EXCEPT !.pos = MaxInt32]
    ELSE IF h.pos + d < 0 THEN h
    ELSE [h EXCEPT !.pos = h.pos + d]

\* binary.Read(r, LittleEndian, &int32): io.ReadFull of four bytes; on a
\* short read the target keeps its zero value and the bytes are consumed
ReadInt32(h) ==
    IF h.closed THEN [n |-> 0, h |-> h]
    ELSE IF h.pos + 4 <= Len(h.data)
        THEN [n |-> I32At(h.data, h.pos), h |-> [h EXCEPT !.pos = @ + 4]]
    ELSE [n |-> 0, h |-> [h EXCEPT !.pos = IF @ < Len(h.data) THEN Len(h.data) ELSE @]]

\* decodeEntryFromReader, lines 255-257: make the buffer and Read into it.
\* value is the bytes that Read delivered into the valueSize-long buffer; a
\* zero-long Read returns (0, nil), a Read at the end of the file (0, io.EOF).
DecodeValue(keySize, valueSize, h) ==
    LET n == ReadCount(h, IF valueSize < 0 THEN 0 ELSE valueSize)
    IN  [panic |-> valueSize < 0,
         keySize |-> keySize, valueSize |-> valueSize,
         value |-> [i \in 1..n |-> h.data[h.pos + i]],
         err |-> IF h.closed THEN "closed"
                 ELSE IF valueSize = 0 THEN "nil"
                 ELSE IF n = 0 THEN "EOF" ELSE "nil",
         h |-> IF h.closed THEN h ELSE [h EXCEPT !.pos = @ + n]]

\* decodeEntryFromReader, line 254: skip the key
DecodeSkipKey(k, v) == DecodeValue(k.n, v.n, SeekCurrent(v.h, k.n))

\* decodeEntryFromReader, line 253: valueSize
DecodeValueSize(k) == DecodeSkipKey(k, ReadInt32(k.h))

\* decodeEntryFromReader: two sizes, skip the key, read the value
DecodeEntryFromReader(h0) == DecodeValueSize(ReadInt32(h0))

\* the valueSize-long buffer that decodeEntryFromReader returns
ValueBuffer(e) == e.value \o Zeros(e.valueSize - Len(e.value))

\* the orders in which range db.index can visit the keys
Orders(S) ==
    {o \in [1..Cardinality(S) -> S] : \A i, j \in 1..Cardinality(S) : o[i] = o[j] => i = j}

\* Compact, lines 189-202: one pass of the loop over order[i..]
RECURSIVE CompactLoop(_, _, _, _)
CompactLoop(order, i, view, st) ==
    IF i > Len(order) \/ st.panic THEN st
    ELSE
      LET key    == order[i]
          offset == index[key]
          active == IF offset.Offset > Len(view)
                        THEN [panic |-> TRUE, value |-> << >>]
                    ELSE DecodeEntry(SliceFrom(view, offset.Offset))
          inList == offset.FileID >= 0 /\ offset.FileID + 1 <= Len(st.files)
          fromR  == DecodeEntryFromReader(SeekStart(st.files[offset.FileID + 1],
                                                    offset.Offset))
          panic  == IF offset.FileID = -1 THEN active.panic
                    ELSE IF inList THEN fromR.panic ELSE TRUE
          value  == IF offset.FileID = -1 THEN active.value ELSE ValueBuffer(fromR)
      IN  IF panic
            THEN [st EXCEPT !.panic = TRUE,
                            !.files = IF inList
                                        THEN [st.files EXCEPT ![offset.FileID + 1] = fromR.h]
                                      ELSE st.files]
          ELSE CompactLoop(order, i + 1, view,
                 [panic |-> FALSE,
                  temp |-> st.temp \o EncodeEntry(key, value),
                  newIndex |-> MapSet(st.newIndex, key, FileOffset(0, Len(st.temp))),
                  files |-> IF inList
                              THEN [st.files EXCEPT ![offset.FileID + 1] = fromR.h]
                            ELSE st.files])

\* Compact, line 178: take the lock
CompactBegin(t) ==
    /\ phase = "serving"
    /\ pc[t] = "idle"
    /\ CanLock
    /\ budget.others > 0
    /\ mu' = Lock(t)
    /\ pc' = [pc EXCEPT ![t] = "compact"]
    /\ budget' = [budget EXCEPT !.others = @ - 1]
    /\ UNCHANGED << arg, mmapData, mapped, dataFiles, index, activeOffset, phase,
                    last, hist, clean, whole, rotations, corrupted >>
    /\ UNCHANGED dirlock

\* Compact returns or panics: the deferred Close and Unlock run
CompactEnd(t, status) ==
    /\ mu' = Unlock(t)
    /\ pc' = [pc EXCEPT ![t] = "idle"]
    /\ last' = Result("compact", << >>, << >>, status, FALSE)
    /\ clean' = FALSE

\* Compact, lines 181-209
CompactBody(t) ==
    /\ pc[t] = "compact"
    /\ \/ \* os.Create("temp.log") fails
          /\ CompactEnd(t, "error")
          /\ UNCHANGED << dataFiles, index, phase >>
       \/ \* a load from the unmapped region faults
          /\ ~mapped
          /\ \E k \in DOMAIN index : index[k].FileID = -1
          /\ phase' = "crashed"
          /\ last' = Result("compact", << >>, << >>, "fault", FALSE)
          /\ clean' = FALSE
          /\ UNCHANGED << mu, pc, dataFiles, index >>
       \/ \E order \in Orders(DOMAIN index),
             view \in (IF mapped THEN {mmapData} ELSE UnmappedViews) :
            LET st == CompactLoop(order, 1, view,
                        [panic |-> FALSE, temp |-> << >>, newIndex |-> << >>,
                         files |-> dataFiles])
            IN  IF st.panic
                  THEN /\ CompactEnd(t, "panic")
                       /\ dataFiles' = st.files
                       /\ UNCHANGED << index, phase >>
                ELSE /\ CompactEnd(t, "ok")
                     \* the handle kept in the list is the one the deferred
                     \* tempFile.Close() closes
                     /\ dataFiles' = << [name |-> 0, data |-> st.temp, pos |-> Len(st.temp),
                                         closed |-> TRUE] >>
                     /\ index' = st.newIndex
                     /\ UNCHANGED phase
    /\ UNCHANGED << arg, mmapData, mapped, activeOffset, hist, whole, rotations, corrupted,
                    budget >>
    /\ UNCHANGED dirlock

(* ------------------------------- recovery ------------------------------- *)
\* offset += int64(size), saturated like the positions
SatAdd(a, b) ==
    IF a > 0 /\ b > 0 /\ a > MaxInt32 - b THEN MaxInt32
    ELSE IF a < 0 /\ b < 0 /\ a < (-MaxInt32) - b THEN -MaxInt32
    ELSE a + b

\* the key bytes that decodeEntryFromReader skips over: entry.Key
SkippedKey(h0, e) ==
    LET from == IF h0.pos + 8 <= Len(h0.data) THEN h0.pos + 8 ELSE Len(h0.data)
        n    == IF e.keySize < 0 THEN 0 ELSE Min(e.keySize, Len(h0.data) - from)
    IN  IF h0.closed THEN << >> ELSE [i \in 1..n |-> h0.data[from + i]]

RECURSIVE RecoverFile(_, _, _, _, _)

\* recoverIndex, lines 218-225: what the loop does with one decoded entry
RecoverEntry(e, h, i, idx, offset, seen) ==
    IF e.panic THEN [status |-> "panic", h |-> e.h, idx |-> idx]
    ELSE IF e.err = "EOF" THEN [status |-> "done", h |-> e.h, idx |-> idx]
    ELSE IF e.err # "nil" THEN [status |-> "error", h |-> e.h, idx |-> idx]
    ELSE IF e.h.pos \in seen
        THEN [status |-> "hang", h |-> e.h,
              idx |-> MapSet(idx, SkippedKey(h, e), FileOffset(i, offset))]
    ELSE RecoverFile(e.h, i, MapSet(idx, SkippedKey(h, e), FileOffset(i, offset)),
                     SatAdd(offset, SatAdd(SatAdd(8, e.keySize), e.valueSize)),
                     seen \cup {e.h.pos})

\* recoverIndex, lines 216-226, on dataFiles[i]: the loop leaves at io.EOF,
\* returns any other error, and never leaves once an iteration finds the
\* handle where an earlier one found it
RecoverFile(h, i, idx, offset, seen) ==
    RecoverEntry(DecodeEntryFromReader(h), h, i, idx, offset, seen)

RECURSIVE RecoverFiles(_, _, _)

\* recoverIndex, lines 214-227: on to the next segment, or out
RecoverNext(r, files, i) ==
    IF r.status = "done" THEN RecoverFiles([files EXCEPT ![i] = r.h], i + 1, r.idx)
    ELSE [status |-> r.status, files |-> [files EXCEPT ![i] = r.h], idx |-> r.idx]

\* recoverIndex, lines 214-227: the closed segments in list order
RecoverFiles(files, i, idx) ==
    IF i > Len(files) THEN [status |-> "done", files |-> files, idx |-> idx]
    ELSE RecoverNext(RecoverFile(files[i], i - 1, idx, 0, {files[i].pos}), files, i)

RECURSIVE RecoverActive(_, _, _, _)

\* recoverIndex, lines 232-237: one decoded entry of the active file
RecoverActiveEntry(e, view, limit, idx, offset) ==
    IF e.panic THEN [status |-> "panic", idx |-> idx]
    ELSE IF e.size <= 0
        THEN [status |-> "hang", idx |-> MapSet(idx, e.key, FileOffset(-1, offset))]
    ELSE RecoverActive(view, limit, MapSet(idx, e.key, FileOffset(-1, offset)),
                       offset + e.size)

\* recoverIndex, lines 230-238: the active file up to activeOffset
RecoverActive(view, limit, idx, offset) ==
    IF offset >= limit THEN [status |-> "done", idx |-> idx]
    ELSE IF offset > Len(view) THEN [status |-> "panic", idx |-> idx]
    ELSE RecoverActiveEntry(DecodeEntry(SliceFrom(view, offset)), view, limit, idx, offset)

\* recoverIndex, lines 229-240: after the closed segments
RecoverAfterClosed(closedPart, view, limit) ==
    IF closedPart.status # "done" THEN closedPart
    ELSE [closedPart EXCEPT !.status = RecoverActive(view, limit, closedPart.idx, 0).status,
                            !.idx = RecoverActive(view, limit, closedPart.idx, 0).idx]

\* recoverIndex on a fresh index
RecoverIndex(files, view, limit) ==
    RecoverAfterClosed(RecoverFiles(files, 1, << >>), view, limit)

\* what the restart leaves, r the outcome of recoverIndex
Restarted(r) ==
    /\ dataFiles' = r.files
    /\ index' = r.idx
    /\ phase' = CASE r.status = "done"  -> "serving"
                  [] r.status = "hang"  -> "hung"
                  [] r.status = "error" -> "failed"
                  [] OTHER              -> "crashed"
    /\ last' = Result("restart", << >>, << >>, r.status, FALSE)

\* A restart in place: the index is dropped, initActiveFile("active.log",
\* MaxFileSize) maps the file again (O_CREATE without O_TRUNC keeps its
\* bytes) and sets activeOffset to 0, then recoverIndex runs.
Restart ==
    /\ phase = "serving"
    /\ \A t \in Threads : pc[t] = "idle"
    /\ budget.others > 0
    /\ Restarted(RecoverIndex(dataFiles, mmapData, 0))
    /\ mapped' = TRUE
    /\ activeOffset' = 0
    /\ clean' = FALSE
    /\ budget' = [budget EXCEPT !.others = @ - 1]
    /\ UNCHANGED << mu, pc, arg, mmapData, hist, whole, rotations, corrupted >>
    /\ UNCHANGED dirlock

(* ---------------------------- disk corruption --------------------------- *)
CorruptMasks == {1, 255}

\* the index entry of key is the record of its last Put, whole, in active.log
StoredInActive(key) ==
    /\ key \in DOMAIN index
    /\ index[key].FileID = -1
    /\ hist[key].state = "live"
    /\ LET value == hist[key].vals[Len(hist[key].vals)]
           off   == index[key].Offset
       IN  /\ Len(value) > 0
           /\ off + HeaderSize + Len(key) + Len(value) <= Len(mmapData)
           /\ \E ts \in Clock :
                SubSeq(mmapData, off + 1, off + HeaderSize + Len(key) + Len(value))
                  = RecordEncode(key, value, ts)

\* one byte of the stored value of key changes on disk (first or last byte)
CorruptValue(key, mask) ==
    /\ budget.others > 0
    /\ key \notin corrupted
    /\ StoredInActive(key)
    /\ \E j \in {1, Len(hist[key].vals[Len(hist[key].vals)])} :
         mmapData' = [mmapData EXCEPT ![index[key].Offset + HeaderSize + Len(key) + j] =
                                         XorByte[@][mask]]
    /\ corrupted' = corrupted \cup {key}
    /\ last' = Result("corrupt", key, << >>, "ok", FALSE)
    /\ clean' = FALSE
    /\ budget' = [budget EXCEPT !.others = @ - 1]
    /\ UNCHANGED << mu, pc, arg, mapped, dataFiles, index, activeOffset, phase, hist,
                    whole, rotations >>
    /\ UNCHANGED dirlock

(* ---------------------------- directory lock -------------------------- *)
\* The lock file of the data directory (package barrel).  flock(2) locks
\* belong to the open file description and lock the inode it is open on,
\* whatever name that inode has or has lost.
EngineIdle == UNCHANGED << mu, pc, arg, mmapData, mapped, dataFiles, index, activeOffset,
                           phase, last, hist, clean, whole, rotations, corrupted, budget >>

\* createFlockFile, line 54: os.Create opens the inode at the name, or makes
\* a new one when the name is absent
FlockCreate(p) ==
    /\ flockPc[p] = "out"
    /\ flockPath = None => flockInodes < MaxInodes
    /\ flockPath' = IF flockPath = None THEN flockInodes + 1 ELSE flockPath
    /\ flockInodes' = IF flockPath = None THEN flockInodes + 1 ELSE flockInodes
    /\ flockFd' = [flockFd EXCEPT ![p] = flockPath']
    /\ flockPc' = [flockPc EXCEPT ![p] = "created"]
    /\ UNCHANGED flockHeld
    /\ EngineIdle

\* unix.Flock(fd, LOCK_EX|LOCK_NB) succeeds: no other description holds the inode
FlockFree(inode) == flockHeld[inode] = None

\* createFlockFile, lines 58-61: the non-blocking exclusive lock; on
\* EWOULDBLOCK the error is returned and the handle dropped unclosed
FlockTry(p) ==
    /\ flockPc[p] = "created"
    /\ IF FlockFree(flockFd[p])
         THEN /\ flockHeld' = [flockHeld EXCEPT ![flockFd[p]] = p]
              /\ flockPc' = [flockPc EXCEPT ![p] = "held"]
              /\ UNCHANGED flockFd
         ELSE /\ flockPc' = [flockPc EXCEPT ![p] = "out"]
              /\ flockFd' = [flockFd EXCEPT ![p] = None]
              /\ UNCHANGED flockHeld
    /\ UNCHANGED << flockPath, flockInodes >>
    /\ EngineIdle

\* destroyFlockFile, line 67: unix.Flock(fd, LOCK_UN)
FlockUnlock(p) ==
    /\ flockPc[p] = "held"
    /\ flockHeld' = [flockHeld EXCEPT ![flockFd[p]] = None]
    /\ flockPc' = [flockPc EXCEPT ![p] = "unlocked"]
    /\ UNCHANGED << flockPath, flockInodes, flockFd >>
    /\ EngineIdle

\* destroyFlockFile, line 71: flockF.Close()
FlockClose(p) ==
    /\ flockPc[p] = "unlocked"
    /\ flockFd' = [flockFd EXCEPT ![p] = None]
    /\ flockPc' = [flockPc EXCEPT ![p] = "closed"]
    /\ UNCHANGED << flockPath, flockInodes, flockHeld >>
    /\ EngineIdle

\* destroyFlockFile, line 75: os.Remove(name) unlinks whatever inode has the
\* name now; with the name absent it fails and the error is returned
FlockRemove(p) ==
    /\ flockPc[p] = "closed"
    /\ flockPath' = None
    /\ flockPc' = [flockPc EXCEPT ![p] = "out"]
    /\ UNCHANGED << flockInodes, flockFd, flockHeld >>
    /\ EngineIdle

NextFlock ==
    \/ \E p \in Procs : FlockCreate(p)
    \/ \E p \in Procs : FlockTry(p)
    \/ \E p \in Procs : FlockUnlock(p)
    \/ \E p \in Procs : FlockClose(p)
    \/ \E p \in Procs : FlockRemove(p)

\* the processes around the lock file, the engine at rest
SpecFlock == Init /\ [][NextFlock]_vars

Next ==
    \/ \E t \in Threads, key \in Keys, value \in Values, ts \in Clock : PutBegin(t, key, value, ts)
    \/ \E t \in Threads : Rotate(t)
    \/ \E t \in Threads : PutWrite(t)
    \/ \E t \in Threads, key \in Keys : GetBegin(t, key)
    \/ \E t \in Threads : GetLookup(t)
    \/ \E t \in Threads : GetRead(t)
    \/ \E t \in Threads, key \in Keys : Delete(t, key)
    \/ \E t \in Threads : CompactBegin(t)
    \/ \E t \in Threads : CompactBody(t)
    \/ Restart
    \/ \E key \in Keys, mask \in CorruptMasks : CorruptValue(key, mask)

Spec == Init /\ [][Next]_vars

SpecConc == InitConc /\ [][Next]_vars

(* ------------------------------- claims --------------------------------- *)
\* no writer is inside: a Get that starts now runs on this state
Quiet == mu.writer = None /\ phase = "serving"

Ok(value) == [status |-> "ok", value |-> value]

LastValue(key) == hist[key].vals[Len(hist[key].vals)]

\* C1: a Put(K, V) that returned success and is immediately followed by
\* Get(K) makes Get return exactly V, whatever the length of the record.
C1_RoundTrip ==
    (Quiet /\ last.op = "put" /\ last.status = "ok")
        => GetValue(last.key) = Ok(last.value)

\* C2: after Put(K, V1) then Put(K, V2) with no later Put to K (and nothing
\* but successful Puts and Gets in the run), Get(K) returns V2.
C2_LastWriteWins ==
    \A key \in Keys :
        (Quiet /\ clean /\ Len(hist[key].vals) = 2) => GetValue(key) = Ok(hist[key].vals[2])

\* C3: after successful Puts with at least one rotation among them, Get of
\* every key ever written returns the value of its last Put (stated for the
\* runs in which every record fitted into a segment).
C3_GetAfterRotation ==
    \A key \in Keys :
        (Quiet /\ clean /\ whole /\ rotations >= 1 /\ hist[key].state = "live")
            => GetValue(key) = Ok(LastValue(key))

\* C9: the record of every successful Put lies inside the mapped region of
\* one file (offset + length <= maxFileSize), and the write offset never
\* exceeds maxFileSize.
C9_NoSplitRecord ==
    /\ activeOffset <= MaxFileSize
    /\ (Quiet /\ last.op = "put" /\ last.status = "ok" /\ last.key \in DOMAIN index)
         => \A ts \in Clock :
              index[last.key].Offset + Len(RecordEncode(last.key, last.value, ts)) <= MaxFileSize

\* C4: Compact preserves the observable contents: Get(K) returns after
\* Compact what it returned before, for every K, and the index has the same
\* keys (stated for a Compact that runs while the active file is mapped).
C4_CompactPreserves ==
    [][ (mapped /\ \E t \in Threads : CompactBody(t))
          => (/\ DOMAIN index' = DOMAIN index
              /\ \A key \in Keys : GetValue(key)' = GetValue(key)) ]_vars

\* C5: after Compact returns, the closed-segment list holds exactly one
\* segment, its handle is open, and Get succeeds for every key of the index.
C5_OneReadableSegment ==
    (Quiet /\ last.op = "compact" /\ last.status = "ok")
        => (/\ Len(dataFiles) = 1
            /\ ~dataFiles[1].closed
            /\ \A key \in DOMAIN index : GetValue(key).status = "ok")

\* C6: a restart (index dropped, active file re-initialised, recovery run)
\* rebuilds an index that holds every key that was live before and maps it to
\* a location that decodes to the same value.
C6_RecoveryIdempotent ==
    [][ Restart => \A key \in DOMAIN index :
                       key \in DOMAIN index' /\ GetValue(key)' = GetValue(key) ]_vars

\* a key never written, or deleted since its last write
Absent(key) == hist[key].state \in {"never", "deleted"}

\* C7: Get of a key never written, or deleted after its write, fails with
\* NotFound, and that Get changes no engine state.
C7_NotFound ==
    /\ [](\A key \in Keys : Absent(key) => GetValue(key).status = "notfound")
    /\ [][ \A t \in Threads :
             (pc[t] = "get" /\ pc'[t] = "idle" /\ Absent(arg[t].key))
               => (/\ last' = Result("get", arg[t].key, << >>, "notfound", FALSE)
                   /\ UNCHANGED << mmapData, mapped, dataFiles, index, activeOffset, phase >>) ]_vars

\* a Get of a deleted key has returned NotFound
C7_Witness ==
    last.op = "get" /\ last.status = "notfound" /\ hist[last.key].state = "deleted"

\* C8: once a byte of the stored value of a key is changed on disk, Get of
\* that key fails with Corrupt (as long as the key is indexed and the active
\* file mapped), also after a later Compact.
C8_Checksum ==
    \A key \in corrupted :
        (Quiet /\ mapped /\ key \in DOMAIN index) => GetValue(key).status = "corrupt"

Writers == {t \in Threads : pc[t] \in {"rotate", "write", "compact"}}
Readers == {t \in Threads : pc[t] \in {"get", "getread"}}

\* C10: at most one Put, rotation or Compact is inside its critical section,
\* no Get is inside its lookup-plus-read section while one is, and a rotation
\* runs only under the exclusive lock of its Put.
C10_Exclusion ==
    /\ Cardinality(Writers) <= 1
    /\ Writers # {} => Readers = {}
    /\ \A t \in Threads : pc[t] \in {"rotate", "write", "compact"} => mu.writer = t
    /\ \A t \in Readers : t \in mu.readers /\ mu.writer = None

\* a rotation is running inside a Put after a Get has completed
C10_Witness ==
    /\ \E t \in Threads : pc[t] = "rotate" /\ mu.writer = t
    /\ last.op = "get"

\* the processes that hold a lock createFlockFile returned to them
FlockHolders == {p \in Procs : flockPc[p] = "held"}

\* C11: under every interleaving of acquire (create the lock file, take the
\* non-blocking exclusive flock) and release (unlock, close, remove the lock
\* file), at most one process at a time holds an acquired directory lock.
C11_DirectoryLock == Cardinality(FlockHolders) <= 1

\* the bytes at location loc, in the segments files or the active file view,
\* are the record that Put(key, value) encoded
RecordIn(files, view, loc, key, value) ==
    /\ loc.FileID >= -1
    /\ loc.FileID + 1 <= Len(files)
    /\ loc.Offset >= 0
    /\ LET data == IF loc.FileID = -1 THEN view ELSE files[loc.FileID + 1].data
       IN  \E ts \in Clock :
             /\ loc.Offset + Len(RecordEncode(key, value, ts)) <= Len(data)
             /\ SubSeq(data, loc.Offset + 1, loc.Offset + Len(RecordEncode(key, value, ts)))
                  = RecordEncode(key, value, ts)

RecordAt(loc, key, value) == RecordIn(dataFiles, mmapData, loc, key, value)

\* C12: in every reachable state the index entry of every key is the
\* location of the most recently written record of that key, so the bytes at
\* that location are that record (stated for runs of successful Puts and
\* Gets whose records all fitted into a segment).
C12_IndexInvariant ==
    \A key \in Keys :
        (Quiet /\ clean /\ whole /\ key \in DOMAIN index /\ hist[key].state = "live")
            => RecordAt(index[key], key, LastValue(key))

\* the record that the Put of thread t encodes
PutRecord(t) == RecordEncode(arg[t].key, arg[t].value, arg[t].ts)

\* C13: a Put rotates exactly when activeOffset + len(record) > maxFileSize;
\* a successful rotation appends exactly one file named data-N, N the segment
\* count before, and resets the write offset to 0; the record of that Put is
\* then written at offset 0 of the new active file and indexed as (-1, 0).
C13_RotationTrigger ==
    [][ \A t \in Threads :
          /\ (pc[t] = "idle" /\ pc'[t] \in {"rotate", "write"})
               => (pc'[t] = "rotate"
                     <=> activeOffset + Len(RecordEncode(arg'[t].key, arg'[t].value, arg'[t].ts))
                           > MaxFileSize)
          /\ (pc[t] = "rotate" /\ pc'[t] = "write")
               => (/\ Len(dataFiles') = Len(dataFiles) + 1
                   /\ SubSeq(dataFiles', 1, Len(dataFiles)) = dataFiles
                   /\ dataFiles'[Len(dataFiles')].name = Len(dataFiles)
                   /\ activeOffset' = 0)
          /\ (pc[t] = "write" /\ arg[t].rotated /\ last' = Result("put", arg[t].key,
                                                                  arg[t].value, "ok", TRUE))
               => (/\ index'[arg[t].key] = FileOffset(-1, 0)
                   /\ Len(PutRecord(t)) <= Len(mmapData')
                   /\ SubSeq(mmapData', 1, Len(PutRecord(t))) = PutRecord(t)) ]_vars

\* C19: every index entry is dereferenceable: with FileID = -1 its Offset is
\* below the write offset of the active file; with FileID >= 0 the FileID is
\* below the length of the closed-segment list and the Offset inside that
\* segment; no entry has another FileID.
C19_LocationWellFormed ==
    Quiet =>
      \A key \in DOMAIN index :
        \/ index[key].FileID = -1 /\ index[key].Offset >= 0 /\ index[key].Offset < activeOffset
        \/ /\ index[key].FileID >= 0
           /\ index[key].FileID < Len(dataFiles)
           /\ index[key].Offset >= 0
           /\ index[key].Offset < Len(dataFiles[index[key].FileID + 1].data)

\* C14: recovery replays the closed segments in list order, each from the
\* front, then the active file, so the rebuilt entry of a key is its last
\* record in that order and the entry's Offset is the offset of that record's
\* header in its file (stated for a recovery that returns, after successful
\* Puts and Gets whose records all fitted).
C14_RecoveryOrder ==
    [][ (Restart /\ clean /\ whole /\ phase' = "serving")
          => \A key \in Keys :
               hist[key].state = "live"
                 => (/\ key \in DOMAIN index'
                     /\ RecordIn(dataFiles', mmapData', index'[key], key, LastValue(key))) ]_vars

\* C15: at the end of a closed segment recovery goes on to the next segment,
\* and on any other decode error it returns that error: recovery always
\* returns, with the index rebuilt or with an error.
C15_RecoveryErrors ==
    last.op = "restart" => last.status \in {"done", "error"}

\* C16: when two Gets run concurrently under the read lock, each returns the
\* last-written value of its own key, also when the keys are stored in a
\* closed segment and the seeks and reads interleave on its shared handle
\* (stated for runs of successful Puts and Gets).
C16_IndependentReaders ==
    [][ \A t \in Threads :
          (/\ pc[t] \in {"get", "getread"}
           /\ pc'[t] = "idle"
           /\ \E u \in Threads \ {t} : pc[u] \in {"get", "getread"}
           /\ clean
           /\ hist[arg[t].key].state = "live")
            => last' = Result("get", arg[t].key, LastValue(arg[t].key), "ok", FALSE) ]_vars

\* thread t, inside Get, is at the read of the active region
ReadsActive(t) ==
    /\ pc[t] = "get"
    /\ IndexGet(index, arg[t].key).ok
    /\ IndexGet(index, arg[t].key).offset.FileID = -1

\* C18: a rotation that fails makes its Put return the error without writing
\* the record or updating the index, and after it no Put writes and no Get
\* reads the active region that the rotation has unmapped.
C18_RotationFailureFatal ==
    [][ \A t \in Threads :
          /\ (pc[t] = "rotate" /\ pc'[t] = "idle")
               => (/\ index' = index
                   /\ last' = Result("put", arg[t].key, arg[t].value, "error", FALSE))
          /\ ~mapped => ~(pc[t] = "write" /\ pc'[t] = "idle")
          /\ ~mapped => ~(ReadsActive(t) /\ (pc'[t] = "idle" \/ phase' = "crashed")) ]_vars

\* thread t holds the engine lock, exclusive or shared
Holds(t) == mu.writer = t \/ t \in mu.readers

\* C17: every Put, Get and Compact that has acquired the engine lock releases
\* it on every exit path and never stops for good while holding it, so that
\* the pending operations can acquire it; no operation acquires the lock
\* while it already holds it.
C17_NoSuspension ==
    [][ \A t \in Threads :
          /\ (Holds(t) /\ pc[t] # "idle" /\ pc'[t] = "idle") => ~Holds(t)'
          /\ Holds(t)' => phase' = "serving"
          /\ (~Holds(t) /\ Holds(t)') => pc[t] = "idle" ]_vars

====
